---- MODULE Spec2Model ----
(***************************************************************************)
(* Verification model of the playground repository: the in-memory          *)
(* CustomConfigStore (a map guarded by a sync.RWMutex), its action-id      *)
(* resolver, the Redis-backed KVConfigStore, and the GoVerify /            *)
(* GoSaveOptions HTTP handlers.                                            *)
(*                                                                         *)
(* Go pointers to optional values (pointer to int or bool) are sets: {}    *)
(* is nil, {v} points to v.  A slice is a sequence.  A Go string is a      *)
(* sequence of characters, each character standing for its UTF-8 encoding. *)
(***************************************************************************)
EXTENDS Integers, Sequences, FiniteSets, TLC

VARIABLES
    configs,     \* CustomConfigStore.configs : map[string]VerificationConfig
    mutex,       \* CustomConfigStore.mutex   : [readers, writer] sets of holders
    pc,          \* position of each goroutine inside GetConfig / SetConfig
    opKey,       \* argument id of the store call in progress
    opCfg,       \* argument config of the SetConfig in progress
    existed,     \* local `existed` of SetConfig (api/go-verify.go:66)
    ret,         \* value GetConfig is returning
    created,     \* value SetConfig is returning (!existed), as a set: {} = none yet
    lastSet,     \* history: per key, the config of the last completed map write
    preAbsent,   \* history: was the key absent when this SetConfig began its write
    action,      \* last GetActionId call: its two arguments and the key returned
    initOnce,    \* sync.Once of initializeVerifier: "fresh", "running", "done"
    verifier,    \* the package-level verifier: {} = nil, {"verifier"} once built
    exited,      \* log.Fatalf has ended the process
    hpc,         \* position of each goroutine inside GoVerify
    req,         \* the HTTP request the goroutine serves
    result,      \* local `result` of GoVerify: {} = nil
    verifyErr,   \* local `err` of GoVerify after verifier.Verify: TRUE = non-nil
    gvConfig,    \* local `config` of GoVerify (api/go-verify.go:259): {} = unset
    resp,        \* the response written
    nVerify,     \* history: verifier.Verify calls made for this request
    nGet,        \* history: configStore.GetConfig calls made for this request
    nSet,        \* history: configStore.SetConfig calls made for this request
    ranInit,     \* history: this request ran the body of initOnce.Do
    redaction,   \* last Redact call: subject, record, its result, and the
                 \* result redacted again
    redis,       \* the Redis keyspace behind KVConfigStore: key -> string value
    expiring,    \* keys of the keyspace that carry an expiration
    kv,          \* last KVConfigStore call: arguments and what it returned
    optionsStore,\* package variable optionsStore : map[string]interface{}
    mapWriters,  \* goroutines inside the assignment optionsStore[k] = v
    crashed,     \* the runtime has ended the process (fatal error)
    spc,         \* position of each goroutine inside GoSaveOptions
    sreq,        \* the HTTP request GoSaveOptions serves
    sresp,       \* the response GoSaveOptions has written
    cancelled,   \* the context of the goroutine's HTTP request is done
    selectedCountries,     \* state of the playground page: the countries
                           \* ticked in the exclusion modal, in order
    countrySelectionError, \* state of the playground page: {} = null
    toggled      \* history: the argument of the last handleCountryToggle
                 \* call, {} before the first

storeVars == <<configs, mutex, pc, opKey, opCfg, existed, ret, created,
               lastSet, preAbsent>>

resolverVars == <<action>>

handlerVars == <<initOnce, verifier, exited, hpc, req, result, verifyErr, gvConfig, resp,
                 nVerify, nGet, nSet, ranInit>>

redactVars == <<redaction>>

kvVars == <<redis, expiring, kv>>

saveVars == <<optionsStore, mapWriters, crashed, spc, sreq, sresp>>

cancelVars == <<cancelled>>

pageVars == <<selectedCountries, countrySelectionError, toggled>>

vars == <<storeVars, resolverVars, handlerVars, redactVars, kvVars, saveVars,
          cancelVars, pageVars>>

----------------------------------------------------------------------------
(* Bounds *)

NumClients == 2

\* Longest user-defined data string handed to GetActionId, in characters.
MaxDataLen == 11

NumCountries == 42

Clients == 1..NumClients

----------------------------------------------------------------------------
(* Data *)

\* self.VerificationConfig as the repository uses it: MinimumAge *int,
\* Ofac *bool, ExcludedCountries []Country3LetterCode.
StandardConfig ==
    [minimumAge |-> {18}, ofac |-> {TRUE}, excludedCountries |-> <<>>]

PremiumConfig ==
    [minimumAge |-> {21}, ofac |-> {TRUE},
     excludedCountries |-> <<"RUS", "IRN">>]

\* A config with every optional field absent (the Go zero value).
ZeroConfig ==
    [minimumAge |-> {}, ofac |-> {}, excludedCountries |-> <<>>]

\* The literal GetConfig returns for an unknown id.
DefaultConfig ==
    [minimumAge |-> {18}, ofac |-> {TRUE}, excludedCountries |-> <<>>]

\* A config a caller can build that repeats a country code and asks for an
\* age no person has.
RepeatingConfig ==
    [minimumAge |-> {150}, ofac |-> {},
     excludedCountries |-> <<"RUS", "RUS">>]

\* Configs the clients of the store write.
InputConfigs == {StandardConfig, PremiumConfig, ZeroConfig, RepeatingConfig}

StoreKeys == {"standard-user-config", "premium-user-config"}

NoKey == ""

\* make(map[string]self.VerificationConfig): the empty map.
EmptyMap == [k \in {} |-> ZeroConfig]

\* m[k] = v on a Go map.
MapPut_Lost(m, k, v) == m

MapPut_Only(m, k, v) == [x \in {k} |-> v]

MapPut(m, k, v) == [x \in DOMAIN m \cup {k} |-> IF x = k THEN v ELSE m[x]]

----------------------------------------------------------------------------
(* sync.RWMutex *)

\* RLock proceeds when no writer holds the lock.
CanRLock_IgnoreWriter(m) == TRUE

CanRLock(m) == m.writer = {}

\* Lock proceeds when nobody holds the lock.
CanLock(m) == m.writer = {} /\ m.readers = {}

----------------------------------------------------------------------------
(* CustomConfigStore.GetConfig *)

\* config, exists := c.configs[id]; the default literal when !exists.
GetConfigResult_FillDefaults(cfgs, id) ==
    IF id \notin DOMAIN cfgs
    THEN DefaultConfig
    ELSE [cfgs[id] EXCEPT
            !.minimumAge = IF @ = {} THEN {18} ELSE @,
            !.ofac = IF @ = {} THEN {TRUE} ELSE @]

GetConfigResult_ZeroOnMissing(cfgs, id) ==
    IF id \in DOMAIN cfgs THEN cfgs[id] ELSE ZeroConfig

GetConfigResult(cfgs, id) ==
    IF id \in DOMAIN cfgs THEN cfgs[id] ELSE DefaultConfig

CallGetConfig(c, id) ==
    /\ pc[c] = "idle"
    /\ pc' = [pc EXCEPT ![c] = "get_rlock"]
    /\ opKey' = [opKey EXCEPT ![c] = id]
    /\ UNCHANGED <<configs, mutex, opCfg, existed, ret, created, lastSet, preAbsent>>

GetRLock(c) ==
    /\ pc[c] = "get_rlock"
    /\ CanRLock(mutex)
    /\ mutex' = [mutex EXCEPT !.readers = @ \cup {c}]
    /\ pc' = [pc EXCEPT ![c] = "get_read"]
    /\ UNCHANGED <<configs, opKey, opCfg, existed, ret, created, lastSet, preAbsent>>

GetRead(c) ==
    /\ pc[c] = "get_read"
    /\ ret' = [ret EXCEPT ![c] = GetConfigResult(configs, opKey[c])]
    /\ pc' = [pc EXCEPT ![c] = "get_runlock"]
    /\ UNCHANGED <<configs, mutex, opKey, opCfg, existed, created, lastSet, preAbsent>>

\* defer c.mutex.RUnlock(): the read lock is given back on return.
RUnlock_Keep(m, c) == m

RUnlock(m, c) == [m EXCEPT !.readers = @ \ {c}]

GetRUnlock(c) ==
    /\ pc[c] = "get_runlock"
    /\ mutex' = RUnlock(mutex, c)
    /\ pc' = [pc EXCEPT ![c] = "idle"]
    /\ opKey' = [opKey EXCEPT ![c] = NoKey]
    /\ ret' = [ret EXCEPT ![c] = ZeroConfig]
    /\ UNCHANGED <<configs, opCfg, existed, created, lastSet, preAbsent>>

----------------------------------------------------------------------------
(* CustomConfigStore.SetConfig *)

\* return !existed, nil
SetConfigReturn_Existed(ex) == ex

SetConfigReturn(ex) == ~ex

CallSetConfig(c, id, config) ==
    /\ pc[c] = "idle"
    /\ pc' = [pc EXCEPT ![c] = "set_lock"]
    /\ opKey' = [opKey EXCEPT ![c] = id]
    /\ opCfg' = [opCfg EXCEPT ![c] = config]
    /\ UNCHANGED <<configs, mutex, existed, ret, created, lastSet, preAbsent>>

SetLock(c) ==
    /\ pc[c] = "set_lock"
    /\ CanLock(mutex)
    /\ mutex' = [mutex EXCEPT !.writer = @ \cup {c}]
    /\ pc' = [pc EXCEPT ![c] = "set_check"]
    /\ UNCHANGED <<configs, opKey, opCfg, existed, ret, created, lastSet, preAbsent>>

\* _, existed := c.configs[id]
SetCheck(c) ==
    /\ pc[c] = "set_check"
    /\ existed' = [existed EXCEPT ![c] = opKey[c] \in DOMAIN configs]
    /\ pc' = [pc EXCEPT ![c] = "set_write"]
    /\ UNCHANGED <<configs, mutex, opKey, opCfg, ret, created, lastSet, preAbsent>>

\* c.configs[id] = config copies a multi-word struct into the map slot; the
\* copy is not atomic.  First half: the slot exists and holds the two
\* pointer fields of the new value (a fresh slot starts from the zero value).
SetWrite(c) ==
    /\ pc[c] = "set_write"
    /\ LET k == opKey[c]
           old == IF k \in DOMAIN configs THEN configs[k] ELSE ZeroConfig
       IN  /\ configs' = MapPut(configs, k,
                           [old EXCEPT !.minimumAge = opCfg[c].minimumAge,
                                       !.ofac = opCfg[c].ofac])
           /\ preAbsent' = [preAbsent EXCEPT ![c] = opKey[c] \notin DOMAIN configs]
    /\ pc' = [pc EXCEPT ![c] = "set_write2"]
    /\ UNCHANGED <<mutex, opKey, opCfg, existed, ret, created, lastSet>>

\* Second half of the copy: the slice field; then the return value is
\* evaluated (the deferred Unlock runs after it).
SetWrite2(c) ==
    /\ pc[c] = "set_write2"
    /\ LET k == opKey[c]
       IN  /\ configs' = MapPut(configs, k, opCfg[c])
           /\ lastSet' = MapPut(lastSet, k, opCfg[c])
    /\ created' = [created EXCEPT ![c] = {SetConfigReturn(existed[c])}]
    /\ pc' = [pc EXCEPT ![c] = "set_unlock"]
    /\ UNCHANGED <<mutex, opKey, opCfg, existed, ret, preAbsent>>

SetUnlock(c) ==
    /\ pc[c] = "set_unlock"
    /\ mutex' = [mutex EXCEPT !.writer = @ \ {c}]
    /\ pc' = [pc EXCEPT ![c] = "idle"]
    /\ opKey' = [opKey EXCEPT ![c] = NoKey]
    /\ opCfg' = [opCfg EXCEPT ![c] = ZeroConfig]
    /\ existed' = [existed EXCEPT ![c] = FALSE]
    /\ created' = [created EXCEPT ![c] = {}]
    /\ preAbsent' = [preAbsent EXCEPT ![c] = FALSE]
    /\ UNCHANGED <<configs, ret, lastSet>>

----------------------------------------------------------------------------
(* CustomConfigStore.GetActionId *)

\* Characters of a user-defined data string: an ASCII letter (one byte in
\* UTF-8) and an accented letter (two bytes in UTF-8).
Chars == {"a", "e_acute"}

UTF8Width(ch) == IF ch = "a" THEN 1 ELSE 2

\* Go's len(s) on a string: the number of bytes of its UTF-8 encoding.
RECURSIVE GoLen(_)
GoLen(s) == IF s = <<>> THEN 0 ELSE UTF8Width(Head(s)) + GoLen(Tail(s))

\* The literal 10 of `len(userDefinedData) > 10`.
TierThreshold == 10

GetActionId_AtLeast(userIdentifier, userDefinedData) ==
    IF GoLen(userDefinedData) >= TierThreshold
    THEN "premium-user-config"
    ELSE "standard-user-config"

GetActionId(userIdentifier, userDefinedData) ==
    IF GoLen(userDefinedData) > TierThreshold
    THEN "premium-user-config"
    ELSE "standard-user-config"

DataStrings == UNION {[1..n -> Chars] : n \in 0..MaxDataLen}

UserIds == {"anonymous-user", "user123"}

NoAction == [uid |-> NoKey, data |-> <<>>, key |-> NoKey]

\* One caller at a time: a call, then the caller consumes the key.
CallGetActionId(userIdentifier, userDefinedData) ==
    /\ action = NoAction
    /\ action' = [uid |-> userIdentifier, data |-> userDefinedData,
                  key |-> GetActionId(userIdentifier, userDefinedData)]

ReturnActionId ==
    /\ action # NoAction
    /\ action' = NoAction

----------------------------------------------------------------------------
(* GoVerify: requests and responses *)

Fields == {"issuingState", "name", "nationality", "dateOfBirth",
           "passportNumber", "gender", "expiryDate"}

\* The disclosed subject a verification result carries.
RawSubject ==
    [f \in Fields |->
        CASE f = "issuingState" -> "FRA"
          [] f = "name" -> "ALICE"
          [] f = "nationality" -> "FRA"
          [] f = "dateOfBirth" -> "1990-01-01"
          [] f = "passportNumber" -> "P123"
          [] f = "gender" -> "F"
          [] OTHER -> "2030-01-01"]

ShortData == [i \in 1..5 |-> "a"]

LongData == [i \in 1..12 |-> "a"]

\* An HTTP request: method, the state of its body ("unreadable", "badjson"
\* or "json"), and the decoded VerifyRequest.  Proof and PublicSignals are
\* interface{} values: FALSE is nil.  UserContextData is {} when nil.
MkReq(m, b, a, p, s, u, id) ==
    [method |-> m, body |-> b, attestationId |-> a, proof |-> p,
     publicSignals |-> s, userContextData |-> u, userId |-> id]

NoReq == MkReq("", "json", "", FALSE, FALSE, {}, "")

ValidReqs ==
    {MkReq("POST", "json", "passport", TRUE, TRUE, {ShortData}, ""),
     MkReq("POST", "json", "eucard", TRUE, TRUE, {LongData}, "user123")}

InvalidReqs ==
    {MkReq("POST", "json", "", TRUE, TRUE, {ShortData}, ""),
     MkReq("POST", "json", "passport", FALSE, TRUE, {ShortData}, ""),
     MkReq("POST", "json", "passport", TRUE, FALSE, {ShortData}, ""),
     MkReq("POST", "json", "passport", TRUE, TRUE, {}, "")}

OtherReqs ==
    {MkReq("OPTIONS", "json", "", FALSE, FALSE, {}, ""),
     MkReq("GET", "json", "", FALSE, FALSE, {}, ""),
     MkReq("POST", "unreadable", "", FALSE, FALSE, {}, ""),
     MkReq("POST", "badjson", "", FALSE, FALSE, {}, "")}

Requests == ValidReqs \cup InvalidReqs \cup OtherReqs

\* What verifier.Verify can return: an error, a nil result without error,
\* or a result that reports the proof valid or not valid.
VerifyOutcomes ==
    {[err |-> TRUE, result |-> {}],
     [err |-> FALSE, result |-> {}],
     [err |-> FALSE, result |-> {[valid |-> TRUE, subject |-> RawSubject]}],
     [err |-> FALSE, result |-> {[valid |-> FALSE, subject |-> RawSubject]}]}

\* A response: the status code written, the kind of JSON body ("none",
\* "message" for a map with a message, "verify" for a VerifyResponse) and the
\* VerifyResponse fields; omitempty fields are sets, {} when omitted.
MkResp(code, kind, status, res, message, subject, options) ==
    [code |-> code, kind |-> kind, status |-> status, result |-> res,
     message |-> message, credentialSubject |-> subject,
     verificationOptions |-> options]

NoResp == MkResp(0, "none", "", FALSE, "", {}, {})

MessageResp(code, message) == MkResp(code, "message", "", FALSE, message, {}, {})

\* if req.AttestationID == "" || req.Proof == nil || req.PublicSignals == nil
\*    || req.UserContextData == nil
MissingRequired_NoContextCheck(r) ==
    \/ r.attestationId = ""
    \/ ~r.proof
    \/ ~r.publicSignals

MissingRequired(r) ==
    \/ r.attestationId = ""
    \/ ~r.proof
    \/ ~r.publicSignals
    \/ r.userContextData = {}

\* userID := req.UserID; if userID == "" { userID = "anonymous-user" }
UserIDOf(r) == IF r.userId = "" THEN "anonymous-user" ELSE r.userId

\* The verificationOptions map GoVerify builds from the config.
VerificationOptionsOf(config) ==
    LET keys == (IF config.minimumAge # {} THEN {"minimumAge"} ELSE {})
                \cup (IF config.ofac # {} THEN {"ofac"} ELSE {})
                \cup (IF Len(config.excludedCountries) > 0
                      THEN {"excludedCountries"} ELSE {})
    IN  [k \in keys |->
            CASE k = "minimumAge" -> CHOOSE v \in config.minimumAge : TRUE
              [] k = "ofac" -> CHOOSE v \in config.ofac : TRUE
              [] OTHER -> config.excludedCountries]

\* response.CredentialSubject = result
CredentialSubjectOf(res, config) == res.subject

\* The response of the isValid branch: verificationOptions is filled only
\* when GetConfig returned err == nil; an error is dropped and the response
\* is encoded as it stands.
VerifiedResponse(res, config, err) ==
    MkResp(200, "verify", "success", TRUE, "Verification successful",
           {CredentialSubjectOf(res, config)},
           IF err THEN {} ELSE {VerificationOptionsOf(config)})

----------------------------------------------------------------------------
(* initializeVerifier: the body runs under initOnce.Do *)

storeFrame == UNCHANGED storeVars

\* GoVerify is entered and calls initializeVerifier: initOnce.Do returns
\* at once when the body has completed.
BeginRequest(c, r) ==
    /\ hpc[c] = "idle"
    /\ hpc' = [hpc EXCEPT ![c] = IF initOnce = "done" THEN "handle" ELSE "init"]
    /\ req' = [req EXCEPT ![c] = r]
    /\ UNCHANGED <<initOnce, verifier, exited, result, verifyErr, gvConfig, resp, nVerify, nGet, nSet, ranInit>>
    /\ storeFrame

\* initOnce.Do(f) runs f for the first caller only; callers arriving while
\* f runs wait for it to return.
DoRunsBody_EveryWaiter(once) == once # "done"

DoRunsBody(once) == once = "fresh"

\* The first caller of initOnce.Do enters the body:
\* configStore = NewCustomConfigStore()
InitEnter(c) ==
    /\ hpc[c] = "init"
    /\ DoRunsBody(initOnce)
    /\ initOnce' = "running"
    /\ configs' = EmptyMap
    /\ hpc' = [hpc EXCEPT ![c] = "init_standard"]
    /\ ranInit' = [ranInit EXCEPT ![c] = TRUE]
    /\ UNCHANGED <<verifier, exited, req, result, verifyErr, gvConfig, resp, nVerify, nGet, nSet>>
    /\ UNCHANGED <<mutex, pc, opKey, opCfg, existed, ret, created, lastSet, preAbsent>>

\* configStore.SetConfig(ctx, "standard-user-config", standardConfig)
InitSetStandard(c) ==
    /\ hpc[c] = "init_standard"
    /\ CallSetConfig(c, "standard-user-config", StandardConfig)
    /\ hpc' = [hpc EXCEPT ![c] = "init_premium"]
    /\ nSet' = [nSet EXCEPT ![c] = @ + 1]
    /\ UNCHANGED <<initOnce, verifier, exited, req, result, verifyErr, gvConfig, resp, nVerify, nGet, ranInit>>

\* configStore.SetConfig(ctx, "premium-user-config", premiumConfig)
InitSetPremium(c) ==
    /\ hpc[c] = "init_premium"
    /\ CallSetConfig(c, "premium-user-config", PremiumConfig)
    /\ hpc' = [hpc EXCEPT ![c] = "init_verifier"]
    /\ nSet' = [nSet EXCEPT ![c] = @ + 1]
    /\ UNCHANGED <<initOnce, verifier, exited, req, result, verifyErr, gvConfig, resp, nVerify, nGet, ranInit>>

\* verifier, err = self.NewBackendVerifier(...); the Once completes.
InitNewVerifier(c) ==
    /\ hpc[c] = "init_verifier"
    /\ pc[c] = "idle"
    /\ verifier' = {"verifier"}
    /\ initOnce' = "done"
    /\ hpc' = [hpc EXCEPT ![c] = "handle"]
    /\ UNCHANGED <<exited, req, result, verifyErr, gvConfig, resp, nVerify, nGet, nSet, ranInit>>
    /\ storeFrame

\* if err != nil { log.Fatalf(...) }: the process exits.
InitFatal(c) ==
    /\ hpc[c] = "init_verifier"
    /\ pc[c] = "idle"
    /\ exited' = TRUE
    /\ UNCHANGED <<initOnce, verifier, hpc, req, result, verifyErr, gvConfig, resp, nVerify, nGet, nSet, ranInit>>
    /\ storeFrame

\* A caller of initOnce.Do that arrived while the body was running is let
\* go once the body has completed.
InitSkip(c) ==
    /\ hpc[c] = "init"
    /\ initOnce = "done"
    /\ hpc' = [hpc EXCEPT ![c] = "handle"]
    /\ UNCHANGED <<initOnce, verifier, exited, req, result, verifyErr, gvConfig, resp, nVerify, nGet, nSet, ranInit>>
    /\ storeFrame

----------------------------------------------------------------------------
(* GoVerify after initializeVerifier *)

Respond(c, r) ==
    /\ resp' = [resp EXCEPT ![c] = r]
    /\ hpc' = [hpc EXCEPT ![c] = "done"]

handlerFrame == UNCHANGED <<initOnce, verifier, exited, req, nVerify, nGet, nSet, ranInit>>

\* if r.Method == "OPTIONS" { w.WriteHeader(http.StatusOK); return }
HandleOptions(c) ==
    /\ hpc[c] = "handle"
    /\ req[c].method = "OPTIONS"
    /\ Respond(c, MkResp(200, "none", "", FALSE, "", {}, {}))
    /\ UNCHANGED <<result, verifyErr, gvConfig>> /\ handlerFrame /\ storeFrame

HandleNotPost(c) ==
    /\ hpc[c] = "handle"
    /\ req[c].method \notin {"OPTIONS", "POST"}
    /\ Respond(c, MessageResp(405, "Method not allowed"))
    /\ UNCHANGED <<result, verifyErr, gvConfig>> /\ handlerFrame /\ storeFrame

\* io.ReadAll(r.Body) fails
HandleUnreadable(c) ==
    /\ hpc[c] = "handle"
    /\ req[c].method = "POST"
    /\ req[c].body = "unreadable"
    /\ Respond(c, MessageResp(400, "Error reading request body"))
    /\ UNCHANGED <<result, verifyErr, gvConfig>> /\ handlerFrame /\ storeFrame

\* json.Unmarshal(body, &req) fails
HandleBadJSON(c) ==
    /\ hpc[c] = "handle"
    /\ req[c].method = "POST"
    /\ req[c].body = "badjson"
    /\ Respond(c, MessageResp(400, "Invalid JSON"))
    /\ UNCHANGED <<result, verifyErr, gvConfig>> /\ handlerFrame /\ storeFrame

\* Basic validation
HandleInvalid(c) ==
    /\ hpc[c] = "handle"
    /\ req[c].method = "POST"
    /\ req[c].body = "json"
    /\ MissingRequired(req[c])
    /\ Respond(c, MkResp(400, "verify", "error", FALSE,
         "AttestationID, Proof, PublicSignals, and UserContextData are required",
         {}, {}))
    /\ UNCHANGED <<result, verifyErr, gvConfig>> /\ handlerFrame /\ storeFrame

\* result, err := verifier.Verify(...): the call is made
CallVerify(c) ==
    /\ hpc[c] = "handle"
    /\ req[c].method = "POST"
    /\ req[c].body = "json"
    /\ ~MissingRequired(req[c])
    /\ hpc' = [hpc EXCEPT ![c] = "verifying"]
    /\ nVerify' = [nVerify EXCEPT ![c] = @ + 1]
    /\ UNCHANGED <<initOnce, verifier, exited, req, result, verifyErr, gvConfig, resp, nGet, nSet, ranInit>>
    /\ storeFrame

\* The response to a verifier error: 500, status "error", result false,
\* message fmt.Sprintf("Verification failed: %v", err).
VerificationFailedResponse_AsSuccess(message) ==
    MkResp(200, "verify", "success", TRUE, message, {}, {})

VerificationFailedResponse(message) ==
    MkResp(500, "verify", "error", FALSE, message, {}, {})

\* if err != nil { ...; return }
VerifyError(c) ==
    /\ hpc[c] = "verifying"
    /\ [err |-> TRUE, result |-> {}] \in VerifyOutcomes
    /\ verifyErr' = [verifyErr EXCEPT ![c] = TRUE]
    /\ Respond(c, VerificationFailedResponse("Verification failed: error"))
    /\ UNCHANGED <<result, gvConfig>> /\ handlerFrame /\ storeFrame

\* isValid stays false only when result == nil
VerifyNil(c) ==
    /\ hpc[c] = "verifying"
    /\ [err |-> FALSE, result |-> {}] \in VerifyOutcomes
    /\ Respond(c, MkResp(200, "verify", "success", FALSE,
                         "Verification failed", {}, {}))
    /\ UNCHANGED <<result, verifyErr, gvConfig>> /\ handlerFrame /\ storeFrame

\* result != nil: isValid = true, whatever the result reports
VerifyResult(c) ==
    /\ hpc[c] = "verifying"
    /\ \E o \in VerifyOutcomes :
         /\ ~o.err /\ o.result # {}
         /\ result' = [result EXCEPT ![c] = o.result]
    /\ hpc' = [hpc EXCEPT ![c] = "getconfig"]
    /\ UNCHANGED <<resp, verifyErr, gvConfig>> /\ handlerFrame /\ storeFrame

\* configStore.GetConfig(ctx, userID): the call is made
CallStoreGet(c) ==
    /\ hpc[c] = "getconfig"
    /\ CallGetConfig(c, UserIDOf(req[c]))
    /\ hpc' = [hpc EXCEPT ![c] = "getconfig_return"]
    /\ nGet' = [nGet EXCEPT ![c] = @ + 1]
    /\ UNCHANGED <<initOnce, verifier, exited, req, result, verifyErr, gvConfig, resp, nVerify, nSet, ranInit>>

\* GetConfig returns (its deferred RUnlock runs); err == nil always, so the
\* handler fills verificationOptions and encodes the response.
StoreGetReturn(c) ==
    /\ hpc[c] = "getconfig_return"
    /\ GetRUnlock(c)
    /\ LET res == CHOOSE x \in result[c] : TRUE
       IN  Respond(c, VerifiedResponse(res, ret[c], FALSE))
    /\ gvConfig' = [gvConfig EXCEPT ![c] = {ret[c]}]
    /\ UNCHANGED <<result, verifyErr>> /\ handlerFrame

\* The handler returns; its locals are gone.
Finish(c) ==
    /\ hpc[c] = "done"
    /\ hpc' = [hpc EXCEPT ![c] = "idle"]
    /\ req' = [req EXCEPT ![c] = NoReq]
    /\ result' = [result EXCEPT ![c] = {}]
    /\ verifyErr' = [verifyErr EXCEPT ![c] = FALSE]
    /\ gvConfig' = [gvConfig EXCEPT ![c] = {}]
    /\ resp' = [resp EXCEPT ![c] = NoResp]
    /\ nVerify' = [nVerify EXCEPT ![c] = 0]
    /\ nGet' = [nGet EXCEPT ![c] = 0]
    /\ nSet' = [nSet EXCEPT ![c] = 0]
    /\ ranInit' = [ranInit EXCEPT ![c] = FALSE]
    /\ UNCHANGED <<initOnce, verifier, exited>>
    /\ storeFrame

----------------------------------------------------------------------------
(* verifyHandler: the mock verification endpoint of the standalone server *)

\* The fixed CredentialSubject of the mock response.
MockSubject ==
    [f \in {"nationality", "issuingState", "name", "dateOfBirth",
            "idNumber", "gender", "expiryDate"} |->
        CASE f = "nationality" -> "Test Country"
          [] f = "issuingState" -> "Test State"
          [] f = "name" -> "Test User"
          [] f = "dateOfBirth" -> "1990-01-01"
          [] f = "idNumber" -> "TEST123"
          [] f = "gender" -> "Test"
          [] OTHER -> "2030-01-01"]

\* The fixed VerificationOptions of the mock response.
MockOptions ==
    [k \in {"minimumAge", "ofac", "excludedCountries"} |->
        CASE k = "minimumAge" -> 18
          [] k = "ofac" -> TRUE
          [] OTHER -> <<>>]

\* verifyHandler as a function of the request: it reads no state but the
\* request and writes one response.  enableCORS answers OPTIONS with 200;
\* a body that cannot be read or decoded is "Invalid JSON".
verifyHandler(r) ==
    IF r.method = "OPTIONS" THEN MkResp(200, "none", "", FALSE, "", {}, {})
    ELSE IF r.method # "POST" THEN MessageResp(405, "Method not allowed")
    ELSE IF r.body # "json" THEN MessageResp(400, "Invalid JSON")
    ELSE IF MissingRequired(r)
    THEN MkResp(400, "verify", "error", FALSE,
           "Proof, publicSignals, attestationId and userContextData are required",
           {}, {})
    ELSE MkResp(200, "verify", "success", TRUE,
           "Mock verification successful (Go server working!)",
           {MockSubject}, {MockOptions})

\* The standalone server serves a request with verifyHandler.
ServeVerifyHandler(c, r) ==
    /\ hpc[c] = "idle"
    /\ req' = [req EXCEPT ![c] = r]
    /\ Respond(c, verifyHandler(r))
    /\ UNCHANGED <<initOnce, verifier, exited, result, verifyErr, gvConfig, nVerify, nGet, nSet, ranInit>>
    /\ storeFrame

----------------------------------------------------------------------------
(* DisclosureFilter.Redact, as the specification describes it *)

NotDisclosed == "Not disclosed"

\* record.disclosureToggles[field]; a missing or nil entry is "not disclosed".
Toggle(record, f) == f \in DOMAIN record /\ record[f] = {TRUE}

Redact_WrongField(subject, record) ==
    [f \in Fields |->
        IF Toggle(record, f)
        THEN (IF f = "name" THEN subject["passportNumber"] ELSE subject[f])
        ELSE NotDisclosed]

Redact(subject, record) ==
    [f \in Fields |-> IF Toggle(record, f) THEN subject[f] ELSE NotDisclosed]

\* Policy records with a toggle per field: nil, false or true.
ToggleRecords == [Fields -> {{}, {FALSE}, {TRUE}}]

Subjects ==
    {RawSubject,
     [f \in Fields |-> NotDisclosed],
     [RawSubject EXCEPT !["name"] = NotDisclosed, !["gender"] = ""]}

NoRedaction == [subject |-> <<>>, record |-> <<>>, once |-> <<>>, twice |-> <<>>]

CallRedact(subject, record) ==
    /\ redaction = NoRedaction
    /\ redaction' = [subject |-> subject, record |-> record,
                     once |-> Redact(subject, record),
                     twice |-> Redact(Redact(subject, record), record)]

ReturnRedact ==
    /\ redaction # NoRedaction
    /\ redaction' = NoRedaction

----------------------------------------------------------------------------
(* KVConfigStore: the Redis-backed store *)

\* A string value of the keyspace: the text of a JSON object (obj: field
\* name -> value), a text that is not JSON, or a JSON object with a member
\* whose value does not have the type of the field it names (typed = FALSE;
\* obj then holds the members that do decode).
EmptyObj == [k \in {} |-> 0]

JSONText(obj) == [wellFormed |-> TRUE, typed |-> TRUE, obj |-> obj]

Malformed == [wellFormed |-> FALSE, typed |-> FALSE, obj |-> EmptyObj]

\* {"minimumAge": "eighteen", "ofac": false}
Mistyped ==
    [wellFormed |-> TRUE, typed |-> FALSE, obj |-> [k \in {"ofac"} |-> FALSE]]

\* json.Unmarshal returns nil only for a well-formed text whose members all
\* have the type of their field.
Decodable_IgnoreTypes(text) == text.wellFormed

Decodable(text) == text.wellFormed /\ text.typed

\* json.Marshal(config): every field is omitempty, so a nil pointer and an
\* empty slice leave no member.
JSONMarshal(cfg) ==
    LET keys == (IF cfg.minimumAge # {} THEN {"minimumAge"} ELSE {})
                \cup (IF cfg.ofac # {} THEN {"ofac"} ELSE {})
                \cup (IF Len(cfg.excludedCountries) > 0
                      THEN {"excludedCountries"} ELSE {})
    IN  JSONText([k \in keys |->
            CASE k = "minimumAge" -> CHOOSE v \in cfg.minimumAge : TRUE
              [] k = "ofac" -> CHOOSE v \in cfg.ofac : TRUE
              [] OTHER -> cfg.excludedCountries])

\* json.Unmarshal([]byte(configJSON), &config) on a well-formed text: a
\* member that is missing leaves the field nil.
JSONUnmarshal_ZeroForMissing(text) ==
    [minimumAge |-> IF "minimumAge" \in DOMAIN text.obj
                    THEN {text.obj["minimumAge"]} ELSE {0},
     ofac |-> IF "ofac" \in DOMAIN text.obj THEN {text.obj["ofac"]} ELSE {FALSE},
     excludedCountries |-> IF "excludedCountries" \in DOMAIN text.obj
                           THEN text.obj["excludedCountries"] ELSE <<>>]

JSONUnmarshal(text) ==
    [minimumAge |-> IF "minimumAge" \in DOMAIN text.obj
                    THEN {text.obj["minimumAge"]} ELSE {},
     ofac |-> IF "ofac" \in DOMAIN text.obj THEN {text.obj["ofac"]} ELSE {},
     excludedCountries |-> IF "excludedCountries" \in DOMAIN text.obj
                           THEN text.obj["excludedCountries"] ELSE <<>>]

EmptyKeyspace == [k \in {} |-> Malformed]

KVKeys == {"user123", "anonymous-user"}

\* Raw strings a caller hands to SetWithExpiration.
RawValues == {Malformed, Mistyped, JSONMarshal(PremiumConfig)}

MkKV(op, key, cfg, wasCreated, err, absent) ==
    [op |-> op, key |-> key, config |-> cfg, created |-> wasCreated,
     err |-> err, preAbsent |-> absent, reply |-> "none"]

\* The call record of a GetConfig, with the kind of reply redis.Get gave:
\* "nil" (redis.Nil), "error" (any other error) or "value".
MkKVGet(key, cfg, err, absent, reply) ==
    [MkKV("get", key, {cfg}, {}, err, absent) EXCEPT !.reply = reply]

NoKVCall == MkKV("none", NoKey, {}, {}, FALSE, FALSE)

\* What SetConfig returns after a successful redis.Set: return true, nil
KVSetConfigReturn(wasAbsent) == TRUE

\* SetConfig when redis.Set succeeds (expiration 0: the key persists).
KVSetConfig(id, cfg) ==
    /\ kv = NoKVCall
    /\ redis' = MapPut(redis, id, JSONMarshal(cfg))
    /\ expiring' = expiring \ {id}
    /\ kv' = MkKV("set", id, {cfg}, {KVSetConfigReturn(id \notin DOMAIN redis)},
                  FALSE, id \notin DOMAIN redis)

\* SetConfig when redis.Set fails: return false, err
KVSetConfigFails(id, cfg) ==
    /\ kv = NoKVCall
    /\ kv' = MkKV("set", id, {cfg}, {FALSE}, TRUE, id \notin DOMAIN redis)
    /\ UNCHANGED <<redis, expiring>>

\* SetWithExpiration(key, value, expiration) when redis.Set succeeds.
KVSetWithExpiration(key, value) ==
    /\ kv = NoKVCall
    /\ redis' = MapPut(redis, key, value)
    /\ expiring' = expiring \cup {key}
    /\ kv' = MkKV("setex", key, {}, {}, FALSE, key \notin DOMAIN redis)

\* The backend drops a key whose expiration has passed.
KVExpire(key) ==
    /\ key \in expiring
    /\ redis' = [k \in DOMAIN redis \ {key} |-> redis[k]]
    /\ expiring' = expiring \ {key}
    /\ UNCHANGED kv

\* What GetConfig returns when redis.Get returned an error: the default
\* config and nil for redis.Nil, the zero config and an error otherwise.
KVGetConfigOnError_AlwaysDefault(isNil) ==
    [config |-> DefaultConfig, err |-> FALSE]

KVGetConfigOnError(isNil) ==
    IF isNil
    THEN [config |-> DefaultConfig, err |-> FALSE]
    ELSE [config |-> ZeroConfig, err |-> TRUE]

\* GetConfig when redis.Get answers redis.Nil
KVGetConfigMissing(id) ==
    /\ kv = NoKVCall
    /\ id \notin DOMAIN redis
    /\ LET r == KVGetConfigOnError(TRUE)
       IN  kv' = MkKVGet(id, r.config, r.err, TRUE, "nil")
    /\ UNCHANGED <<redis, expiring>>

\* GetConfig when redis.Get fails otherwise (the backend cannot be reached)
KVGetConfigFails(id) ==
    /\ kv = NoKVCall
    /\ LET r == KVGetConfigOnError(FALSE)
       IN  kv' = MkKVGet(id, r.config, r.err, id \notin DOMAIN redis, "error")
    /\ UNCHANGED <<redis, expiring>>

\* GetConfig when the value does not unmarshal: the zero config and an error
KVGetConfigMalformed(id) ==
    /\ kv = NoKVCall
    /\ id \in DOMAIN redis
    /\ ~Decodable(redis[id])
    /\ kv' = MkKVGet(id, ZeroConfig, TRUE, FALSE, "value")
    /\ UNCHANGED <<redis, expiring>>

\* GetConfig when the value unmarshals: return config, nil
KVGetConfig(id) ==
    /\ kv = NoKVCall
    /\ id \in DOMAIN redis
    /\ Decodable(redis[id])
    /\ kv' = MkKVGet(id, JSONUnmarshal(redis[id]), FALSE, FALSE, "value")
    /\ UNCHANGED <<redis, expiring>>

\* The caller has consumed the result.
KVReturn ==
    /\ kv # NoKVCall
    /\ kv' = NoKVCall
    /\ UNCHANGED <<redis, expiring>>

\* KVConfigStore.GetActionId with the tiers of the in-memory store.
KVGetActionId_TwoTier(userIdentifier, userDefinedData) ==
    [id |-> GetActionId(userIdentifier, userDefinedData), err |-> FALSE]

\* KVConfigStore.GetActionId: return userIdentifier, nil
KVGetActionId(userIdentifier, userDefinedData) ==
    [id |-> userIdentifier, err |-> FALSE]

\* A GetActionId call on the Redis-backed store: the arguments and the key
\* returned are kept in `action`, the error in the call record.
CallKVGetActionId(userIdentifier, userDefinedData) ==
    /\ action = NoAction
    /\ kv = NoKVCall
    /\ LET r == KVGetActionId(userIdentifier, userDefinedData)
       IN  /\ action' = [uid |-> userIdentifier, data |-> userDefinedData,
                         key |-> r.id]
           /\ kv' = MkKV("actionid", r.id, {}, {}, r.err, FALSE)
    /\ UNCHANGED <<redis, expiring>>

\* The caller has consumed the key.
ReturnKVActionId ==
    /\ kv.op = "actionid"
    /\ action' = NoAction
    /\ kv' = NoKVCall
    /\ UNCHANGED <<redis, expiring>>

----------------------------------------------------------------------------
(* GoVerify over the Redis-backed store: the handler's configStore is a     *)
(* KVConfigStore, whose GetConfig can fail                                  *)

\* A request arrives after initializeVerifier has completed.
KVBeginRequest(c, r) ==
    /\ hpc[c] = "idle"
    /\ initOnce = "done"
    /\ hpc' = [hpc EXCEPT ![c] = "handle"]
    /\ req' = [req EXCEPT ![c] = r]
    /\ UNCHANGED <<initOnce, verifier, exited, result, verifyErr, gvConfig, resp, nVerify, nGet, nSet, ranInit>>

\* configStore.GetConfig(ctx, userID) on the KVConfigStore
KVCallStoreGet(c) ==
    /\ hpc[c] = "getconfig"
    /\ LET id == UserIDOf(req[c])
       IN  \/ KVGetConfigMissing(id)
           \/ KVGetConfigFails(id)
           \/ KVGetConfigMalformed(id)
           \/ KVGetConfig(id)
    /\ hpc' = [hpc EXCEPT ![c] = "kv_return"]
    /\ nGet' = [nGet EXCEPT ![c] = @ + 1]
    /\ UNCHANGED <<initOnce, verifier, exited, req, result, verifyErr, gvConfig, resp, nVerify, nSet, ranInit>>

\* if config, err := configStore.GetConfig(ctx, userID); err == nil { ... };
\* then the response is encoded.
KVStoreGetReturn(c) ==
    /\ hpc[c] = "kv_return"
    /\ kv.op = "get"
    /\ KVReturn
    /\ LET res == CHOOSE x \in result[c] : TRUE
           config == CHOOSE x \in kv.config : TRUE
       IN  /\ Respond(c, VerifiedResponse(res, config, kv.err))
           /\ gvConfig' = [gvConfig EXCEPT ![c] = IF kv.err THEN {} ELSE {config}]
    /\ UNCHANGED <<result, verifyErr>> /\ handlerFrame

----------------------------------------------------------------------------
(* GoSaveOptions: the handler that stores a user's options *)

\* make(map[string]interface{})
EmptyOptions == [k \in {} |-> ""]

\* An HTTP request to the endpoint: method, state of the body, and the
\* decoded SaveOptionsRequest; Options is an interface{}: {} is nil.
MkSaveReq(m, b, id, o) == [method |-> m, body |-> b, userId |-> id, options |-> o]

NoSaveReq == MkSaveReq("", "json", "", {})

SaveReqs ==
    {MkSaveReq("OPTIONS", "json", "", {}),
     MkSaveReq("GET", "json", "", {}),
     MkSaveReq("POST", "badjson", "", {}),
     MkSaveReq("POST", "json", "", {"optionsA"}),
     MkSaveReq("POST", "json", "user123", {}),
     MkSaveReq("POST", "json", "user123", {"optionsA"}),
     MkSaveReq("POST", "json", "user123", {"optionsB"}),
     MkSaveReq("POST", "json", "anonymous-user", {"optionsB"})}

MkSaveResp(code, message) == [code |-> code, message |-> message]

NoSaveResp == MkSaveResp(0, "")

SaveRespond(c, r) ==
    /\ sresp' = [sresp EXCEPT ![c] = r]
    /\ spc' = [spc EXCEPT ![c] = "done"]

SaveBegin(c, r) ==
    /\ spc[c] = "idle"
    /\ spc' = [spc EXCEPT ![c] = "handle"]
    /\ sreq' = [sreq EXCEPT ![c] = r]
    /\ UNCHANGED <<optionsStore, mapWriters, crashed, sresp>>

SaveHandleOptions(c) ==
    /\ spc[c] = "handle"
    /\ sreq[c].method = "OPTIONS"
    /\ SaveRespond(c, MkSaveResp(200, ""))
    /\ UNCHANGED <<optionsStore, mapWriters, crashed, sreq>>

SaveHandleNotPost(c) ==
    /\ spc[c] = "handle"
    /\ sreq[c].method \notin {"OPTIONS", "POST"}
    /\ SaveRespond(c, MkSaveResp(405, "Method not allowed"))
    /\ UNCHANGED <<optionsStore, mapWriters, crashed, sreq>>

SaveHandleBadJSON(c) ==
    /\ spc[c] = "handle"
    /\ sreq[c].method = "POST"
    /\ sreq[c].body # "json"
    /\ SaveRespond(c, MkSaveResp(400, "Invalid JSON"))
    /\ UNCHANGED <<optionsStore, mapWriters, crashed, sreq>>

SaveHandleNoUser(c) ==
    /\ spc[c] = "handle"
    /\ sreq[c].method = "POST"
    /\ sreq[c].body = "json"
    /\ sreq[c].userId = ""
    /\ SaveRespond(c, MkSaveResp(400, "User ID is required"))
    /\ UNCHANGED <<optionsStore, mapWriters, crashed, sreq>>

SaveHandleNoOptions(c) ==
    /\ spc[c] = "handle"
    /\ sreq[c].method = "POST"
    /\ sreq[c].body = "json"
    /\ sreq[c].userId # ""
    /\ sreq[c].options = {}
    /\ SaveRespond(c, MkSaveResp(400, "Options are required"))
    /\ UNCHANGED <<optionsStore, mapWriters, crashed, sreq>>

\* optionsStore[req.UserID] = req.Options begins: no lock is taken, the
\* goroutine enters the map assignment whoever else is in it.
SaveStoreBegin(c) ==
    /\ spc[c] = "handle"
    /\ sreq[c].method = "POST"
    /\ sreq[c].body = "json"
    /\ sreq[c].userId # ""
    /\ sreq[c].options # {}
    /\ mapWriters' = mapWriters \cup {c}
    /\ spc' = [spc EXCEPT ![c] = "storing"]
    /\ UNCHANGED <<optionsStore, crashed, sreq, sresp>>

\* The assignment completes.  Alone in the map, the entry is written.  With
\* another goroutine in the assignment the write races: the entry is
\* written or the write is lost.
SaveStoreEnd(c) ==
    /\ spc[c] = "storing"
    /\ LET written == MapPut(optionsStore, sreq[c].userId,
                             CHOOSE o \in sreq[c].options : TRUE)
       IN  \/ optionsStore' = written
           \/ /\ mapWriters \ {c} # {}
              /\ optionsStore' = optionsStore
    /\ mapWriters' = mapWriters \ {c}
    /\ spc' = [spc EXCEPT ![c] = "stored"]
    /\ UNCHANGED <<crashed, sreq, sresp>>

\* The runtime detects the racing assignment: "fatal error: concurrent map
\* writes" ends the process.
SaveRaceFatal(c) ==
    /\ spc[c] = "storing"
    /\ mapWriters \ {c} # {}
    /\ crashed' = TRUE
    /\ UNCHANGED <<optionsStore, mapWriters, spc, sreq, sresp>>

SaveReply(c) ==
    /\ spc[c] = "stored"
    /\ SaveRespond(c, MkSaveResp(200,
         "Options saved successfully to Go server (Vercel)"))
    /\ UNCHANGED <<optionsStore, mapWriters, crashed, sreq>>

\* The handler returns; its locals are gone.
SaveFinish(c) ==
    /\ spc[c] = "done"
    /\ spc' = [spc EXCEPT ![c] = "idle"]
    /\ sreq' = [sreq EXCEPT ![c] = NoSaveReq]
    /\ sresp' = [sresp EXCEPT ![c] = NoSaveResp]
    /\ UNCHANGED <<optionsStore, mapWriters, crashed>>

----------------------------------------------------------------------------
(* The playground page: the country exclusion modal *)

\* The entries of countryCodes the modal lists, numbered in list order; the
\* six countries the page starts with (IRAN, IRAQ, NORTH_KOREA, RUSSIA,
\* SYRIAN_ARAB_REPUBLIC, VENEZUELA) are numbered 1 to 6.
Countries == 1..NumCountries

InitialSelection == <<1, 2, 3, 4, 5, 6>>

\* if (prev.length >= 40)
MaxExcluded == 40

MaxExcludedError == "Maximum 40 countries can be excluded"

\* prev.includes(country)
Includes(prev, country) == \E i \in 1..Len(prev) : prev[i] = country

\* prev.filter(c => c !== country)
Without(prev, country) == SelectSeq(prev, LAMBDA c : c # country)

\* handleCountryToggle with the limit check left out.
ToggledList_NoLimit(prev, country) ==
    IF Includes(prev, country) THEN Without(prev, country)
    ELSE Append(prev, country)

\* The list the updater of handleCountryToggle returns.
ToggledList(prev, country) ==
    IF Includes(prev, country) THEN Without(prev, country)
    ELSE IF Len(prev) >= MaxExcluded THEN prev
    ELSE Append(prev, country)

\* handleCountryToggle(country): the updater and the error it sets.
handleCountryToggle(country) ==
    /\ selectedCountries' = ToggledList(selectedCountries, country)
    /\ countrySelectionError' =
          IF Includes(selectedCountries, country) THEN {}
          ELSE IF Len(selectedCountries) >= MaxExcluded THEN {MaxExcludedError}
          ELSE countrySelectionError
    /\ toggled' = {country}

\* The boxes the user works on: any ticked box of the six the page starts
\* with, the box ticked last, the first unticked box after those six, and,
\* with the list full, any unticked box.
Ticked == {selectedCountries[i] : i \in 1..Len(selectedCountries)}

Clickable ==
    LET unticked == Countries \ Ticked
        later == {c \in unticked : c > Len(InitialSelection)}
    IN  (Ticked \cap (1..Len(InitialSelection)))
        \cup (IF selectedCountries = <<>> THEN {}
              ELSE {selectedCountries[Len(selectedCountries)]})
        \cup {c \in later : \A d \in later : c <= d}
        \cup (IF Len(selectedCountries) >= MaxExcluded THEN unticked ELSE {})

----------------------------------------------------------------------------
(* Specification of the in-memory store under concurrent callers *)

StoreInit ==
    /\ configs = EmptyMap
    /\ mutex = [readers |-> {}, writer |-> {}]
    /\ pc = [c \in Clients |-> "idle"]
    /\ opKey = [c \in Clients |-> NoKey]
    /\ opCfg = [c \in Clients |-> ZeroConfig]
    /\ existed = [c \in Clients |-> FALSE]
    /\ ret = [c \in Clients |-> ZeroConfig]
    /\ created = [c \in Clients |-> {}]
    /\ lastSet = EmptyMap
    /\ preAbsent = [c \in Clients |-> FALSE]

ResolverInit == action = NoAction

HandlerInit ==
    /\ initOnce = "fresh"
    /\ verifier = {}
    /\ exited = FALSE
    /\ hpc = [c \in Clients |-> "idle"]
    /\ req = [c \in Clients |-> NoReq]
    /\ result = [c \in Clients |-> {}]
    /\ verifyErr = [c \in Clients |-> FALSE]
    /\ gvConfig = [c \in Clients |-> {}]
    /\ resp = [c \in Clients |-> NoResp]
    /\ nVerify = [c \in Clients |-> 0]
    /\ nGet = [c \in Clients |-> 0]
    /\ nSet = [c \in Clients |-> 0]
    /\ ranInit = [c \in Clients |-> FALSE]

RedactInit == redaction = NoRedaction

SaveInit ==
    /\ optionsStore = EmptyOptions
    /\ mapWriters = {}
    /\ crashed = FALSE
    /\ spc = [c \in Clients |-> "idle"]
    /\ sreq = [c \in Clients |-> NoSaveReq]
    /\ sresp = [c \in Clients |-> NoSaveResp]

KVInit ==
    /\ redis = EmptyKeyspace
    /\ expiring = {}
    /\ kv = NoKVCall

CancelInit == cancelled = [c \in Clients |-> FALSE]

PageInit ==
    /\ selectedCountries = InitialSelection
    /\ countrySelectionError = {}
    /\ toggled = {}

Init ==
    /\ StoreInit /\ ResolverInit /\ HandlerInit /\ RedactInit /\ KVInit
    /\ SaveInit /\ CancelInit /\ PageInit

StoreStep(c) ==
    \/ \E id \in StoreKeys : CallGetConfig(c, id)
    \/ GetRLock(c)
    \/ GetRead(c)
    \/ GetRUnlock(c)
    \/ \E id \in StoreKeys, config \in InputConfigs : CallSetConfig(c, id, config)
    \/ SetLock(c)
    \/ SetCheck(c)
    \/ SetWrite(c)
    \/ SetWrite2(c)
    \/ SetUnlock(c)

Next ==
    /\ \E c \in Clients : StoreStep(c)
    /\ UNCHANGED <<resolverVars, handlerVars, redactVars, kvVars, saveVars, cancelVars, pageVars>>

Spec == Init /\ [][Next]_vars

----------------------------------------------------------------------------
(* Specification of the action-id resolver: any sequence of calls *)

ResolverNext ==
    /\ \/ \E userIdentifier \in UserIds, userDefinedData \in DataStrings :
            CallGetActionId(userIdentifier, userDefinedData)
       \/ ReturnActionId
    /\ UNCHANGED <<storeVars, handlerVars, redactVars, kvVars, saveVars, cancelVars, pageVars>>

SpecResolver == Init /\ [][ResolverNext]_vars

----------------------------------------------------------------------------
(* Specification of the verification endpoints serving concurrent        *)
(* requests: GoVerify, and verifyHandler of the standalone server        *)

\* The store steps a handler takes inside SetConfig and GetConfig.
HandlerStoreStep(c) ==
    /\ \/ SetLock(c)
       \/ SetCheck(c)
       \/ SetWrite(c)
       \/ SetWrite2(c)
       \/ SetUnlock(c)
       \/ GetRLock(c)
       \/ GetRead(c)
    /\ UNCHANGED handlerVars

HandlerStep(c) ==
    \/ \E r \in Requests : BeginRequest(c, r)
    \/ InitEnter(c)
    \/ InitSetStandard(c)
    \/ InitSetPremium(c)
    \/ InitNewVerifier(c)
    \/ InitFatal(c)
    \/ InitSkip(c)
    \/ HandleOptions(c)
    \/ HandleNotPost(c)
    \/ HandleUnreadable(c)
    \/ HandleBadJSON(c)
    \/ HandleInvalid(c)
    \/ CallVerify(c)
    \/ VerifyError(c)
    \/ VerifyNil(c)
    \/ VerifyResult(c)
    \/ CallStoreGet(c)
    \/ StoreGetReturn(c)
    \/ \E r \in Requests : ServeVerifyHandler(c, r)
    \/ Finish(c)

VerifyNext ==
    /\ ~exited
    /\ \E c \in Clients : HandlerStep(c) \/ HandlerStoreStep(c)
    /\ UNCHANGED <<resolverVars, redactVars, kvVars, saveVars, cancelVars, pageVars>>

SpecVerify == Init /\ [][VerifyNext]_vars

\* The steps a goroutine takes once its request has arrived: everything but
\* the arrival of a request.
HandlerProgress(c) ==
    /\ ~exited
    /\ hpc[c] # "idle"
    /\ HandlerStep(c) \/ HandlerStoreStep(c)
    /\ UNCHANGED <<resolverVars, redactVars, kvVars, saveVars, cancelVars, pageVars>>

\* The Go scheduler runs every runnable goroutine, the mutex admits a
\* waiter once it is free, and a call to the verifier returns.
SpecVerifyLive ==
    Init /\ [][VerifyNext]_vars /\ \A c \in Clients : WF_vars(HandlerProgress(c))

\* GoVerify serving requests that pass validation, the ones that reach the
\* verifier and the store.
StoreUserStep(c) ==
    \/ \E r \in ValidReqs : BeginRequest(c, r)
    \/ InitEnter(c)
    \/ InitSetStandard(c)
    \/ InitSetPremium(c)
    \/ InitNewVerifier(c)
    \/ InitFatal(c)
    \/ InitSkip(c)
    \/ CallVerify(c)
    \/ VerifyError(c)
    \/ VerifyNil(c)
    \/ VerifyResult(c)
    \/ CallStoreGet(c)
    \/ StoreGetReturn(c)
    \/ Finish(c)
    \/ HandlerStoreStep(c)

BlockingNext ==
    /\ ~exited
    /\ \E c \in Clients : StoreUserStep(c)
    /\ UNCHANGED <<resolverVars, redactVars, kvVars, saveVars, cancelVars, pageVars>>

\* Every step of a goroutine but the arrival of its request and the return
\* of its verifier call.
StoreUserProgress(c) ==
    /\ ~exited
    /\ hpc[c] \notin {"idle", "verifying"}
    /\ StoreUserStep(c)
    /\ UNCHANGED <<resolverVars, redactVars, kvVars, saveVars, cancelVars, pageVars>>

\* The scheduler runs every runnable goroutine and the mutex admits a
\* waiter once it is free, but a call to the verifier may never return: a
\* goroutine inside verifier.Verify is not required to move.
SpecVerifyBlocking ==
    /\ Init /\ [][BlockingNext]_vars
    /\ \A c \in Clients : WF_vars(StoreUserProgress(c))

----------------------------------------------------------------------------
(* Specification of GoVerify serving requests whose context can be        *)
(* cancelled: the client goes away or the server's deadline passes        *)

\* ctx := context.Background(): the context GoVerify hands to
\* verifier.Verify and to configStore.GetConfig.  "background" is never
\* done; "request" stands for a context derived from r.Context().
HandlerContext == "background"

\* The context a blocking call of the goroutine runs under is done.
CallContextDone(c) == HandlerContext = "request" /\ cancelled[c]

\* The context of the request being served becomes done.
CancelRequest(c) ==
    /\ hpc[c] \notin {"idle", "done"}
    /\ ~cancelled[c]
    /\ cancelled' = [cancelled EXCEPT ![c] = TRUE]
    /\ UNCHANGED <<storeVars, handlerVars>>

\* The handler returns: the request and its context are gone.
FinishCancellable(c) ==
    /\ Finish(c)
    /\ cancelled' = [cancelled EXCEPT ![c] = FALSE]

CancellableStep(c) ==
    \/ /\ \/ \E r \in ValidReqs : BeginRequest(c, r)
          \/ InitEnter(c)
          \/ InitSetStandard(c)
          \/ InitSetPremium(c)
          \/ InitNewVerifier(c)
          \/ InitSkip(c)
          \/ CallVerify(c)
          \/ VerifyError(c)
          \/ VerifyNil(c)
          \/ VerifyResult(c)
          \/ CallStoreGet(c)
          \/ StoreGetReturn(c)
          \/ HandlerStoreStep(c)
       /\ UNCHANGED cancelled
    \/ CancelRequest(c)
    \/ FinishCancellable(c)

CancelNext ==
    /\ \E c \in Clients : CancellableStep(c)
    /\ UNCHANGED <<resolverVars, redactVars, kvVars, saveVars, pageVars>>

SpecVerifyCancel == Init /\ [][CancelNext]_vars

----------------------------------------------------------------------------
(* Specification of the two stores given the same calls, one after the    *)
(* other, by one caller; the Redis backend never fails                    *)

\* A config whose optional fields are present and hold the zero values.
ExplicitZeroConfig ==
    [minimumAge |-> {0}, ofac |-> {FALSE}, excludedCountries |-> <<>>]

BothConfigs == InputConfigs \cup {ExplicitZeroConfig}

\* CustomConfigStore.SetConfig run to completion by a single caller.
SetConfigDone(c, id, config) ==
    /\ configs' = MapPut(configs, id, config)
    /\ lastSet' = MapPut(lastSet, id, config)
    /\ created' = [created EXCEPT ![c] = {SetConfigReturn(id \in DOMAIN configs)}]
    /\ opKey' = [opKey EXCEPT ![c] = id]
    /\ UNCHANGED <<mutex, pc, opCfg, existed, ret, preAbsent>>

\* CustomConfigStore.GetConfig run to completion by a single caller.
GetConfigDone(c, id) ==
    /\ ret' = [ret EXCEPT ![c] = GetConfigResult(configs, id)]
    /\ opKey' = [opKey EXCEPT ![c] = id]
    /\ UNCHANGED <<configs, mutex, pc, opCfg, existed, created, lastSet, preAbsent>>

\* The same SetConfig on both stores.
BothSetConfig(c, id, config) ==
    /\ \A d \in Clients : opKey[d] = NoKey
    /\ SetConfigDone(c, id, config)
    /\ KVSetConfig(id, config)

\* The same GetConfig on both stores.
BothGetConfig(c, id) ==
    /\ \A d \in Clients : opKey[d] = NoKey
    /\ GetConfigDone(c, id)
    /\ KVGetConfigMissing(id) \/ KVGetConfig(id)

\* The caller has consumed both results.
BothReturn(c) ==
    /\ opKey[c] # NoKey
    /\ KVReturn
    /\ opKey' = [opKey EXCEPT ![c] = NoKey]
    /\ ret' = [ret EXCEPT ![c] = ZeroConfig]
    /\ created' = [created EXCEPT ![c] = {}]
    /\ UNCHANGED <<configs, mutex, pc, opCfg, existed, lastSet, preAbsent>>

BothNext ==
    /\ \E c \in Clients :
          \/ \E id \in KVKeys, config \in BothConfigs : BothSetConfig(c, id, config)
          \/ \E id \in KVKeys : BothGetConfig(c, id)
          \/ BothReturn(c)
    /\ UNCHANGED <<resolverVars, handlerVars, redactVars, saveVars, cancelVars, pageVars>>

SpecBothStores == Init /\ [][BothNext]_vars

----------------------------------------------------------------------------
(* Specification of GoVerify and GoSaveOptions served side by side: each   *)
(* goroutine serves one request at a time, of either kind                  *)

\* GoSaveOptions serving the requests of one user that pass its checks.
SaveUserStep(c) ==
    \/ \E r \in {q \in SaveReqs : q.method = "POST" /\ q.body = "json"
                                   /\ q.userId = "user123" /\ q.options # {}} :
          SaveBegin(c, r)
    \/ SaveStoreBegin(c)
    \/ SaveStoreEnd(c)
    \/ SaveRaceFatal(c)
    \/ SaveReply(c)
    \/ SaveFinish(c)

VerifyAndSaveNext ==
    /\ ~exited /\ ~crashed
    /\ \E c \in Clients :
          \/ spc[c] = "idle" /\ StoreUserStep(c) /\ UNCHANGED saveVars
          \/ hpc[c] = "idle" /\ SaveUserStep(c) /\ UNCHANGED <<storeVars, handlerVars>>
    /\ UNCHANGED <<resolverVars, redactVars, kvVars, cancelVars, pageVars>>

SpecVerifyAndSave == Init /\ [][VerifyAndSaveNext]_vars

----------------------------------------------------------------------------
(* Specification of one CustomConfigStore under concurrent callers of all  *)
(* three methods                                                           *)

\* The records and context data the callers pass.
CallConfigs == {PremiumConfig, DefaultConfig}

CallData == {ShortData, LongData}

StoreCallsNext ==
    /\ \/ /\ \E c \in Clients :
                \/ \E id \in StoreKeys : CallGetConfig(c, id)
                \/ GetRLock(c)
                \/ GetRead(c)
                \/ GetRUnlock(c)
                \/ \E id \in StoreKeys, config \in CallConfigs :
                      CallSetConfig(c, id, config)
                \/ SetLock(c)
                \/ SetCheck(c)
                \/ SetWrite(c)
                \/ SetWrite2(c)
                \/ SetUnlock(c)
          /\ UNCHANGED resolverVars
       \/ /\ \/ \E userIdentifier \in UserIds, userDefinedData \in CallData :
                  CallGetActionId(userIdentifier, userDefinedData)
             \/ ReturnActionId
          /\ UNCHANGED storeVars
    /\ UNCHANGED <<handlerVars, redactVars, kvVars, saveVars, cancelVars, pageVars>>

SpecStoreCalls == Init /\ [][StoreCallsNext]_vars

----------------------------------------------------------------------------
(* Specification of the playground page: any sequence of clicks *)

PageNext ==
    /\ \E country \in Clickable : handleCountryToggle(country)
    /\ UNCHANGED <<storeVars, resolverVars, handlerVars, redactVars, kvVars,
                   saveVars, cancelVars>>

SpecPage == Init /\ [][PageNext]_vars

----------------------------------------------------------------------------
(* Specification of the disclosure filter: any sequence of calls *)

RedactNext ==
    /\ \/ \E subject \in Subjects, record \in ToggleRecords :
            CallRedact(subject, record)
       \/ ReturnRedact
    /\ UNCHANGED <<storeVars, resolverVars, handlerVars, kvVars, saveVars, cancelVars, pageVars>>

SpecRedact == Init /\ [][RedactNext]_vars

----------------------------------------------------------------------------
(* Specification of the Redis-backed store: any sequence of calls *)

KVNext ==
    /\ \/ \E id \in KVKeys, cfg \in InputConfigs : KVSetConfig(id, cfg)
       \/ \E id \in KVKeys, cfg \in InputConfigs : KVSetConfigFails(id, cfg)
       \/ \E key \in KVKeys, value \in RawValues : KVSetWithExpiration(key, value)
       \/ \E key \in KVKeys : KVExpire(key)
       \/ \E id \in KVKeys : KVGetConfigMissing(id)
       \/ \E id \in KVKeys : KVGetConfigFails(id)
       \/ \E id \in KVKeys : KVGetConfigMalformed(id)
       \/ \E id \in KVKeys : KVGetConfig(id)
       \/ KVReturn
    /\ UNCHANGED <<storeVars, resolverVars, handlerVars, redactVars, saveVars, cancelVars, pageVars>>

SpecKV == Init /\ [][KVNext]_vars

----------------------------------------------------------------------------
(* Specification of the action-id resolver of the Redis-backed store: any *)
(* sequence of calls                                                      *)

KVResolverNext ==
    /\ \/ \E userIdentifier \in UserIds, userDefinedData \in DataStrings :
            CallKVGetActionId(userIdentifier, userDefinedData)
       \/ ReturnKVActionId
    /\ UNCHANGED <<storeVars, handlerVars, redactVars, saveVars, cancelVars, pageVars>>

SpecKVResolver == Init /\ [][KVResolverNext]_vars

----------------------------------------------------------------------------
(* Specification of GoVerify over the Redis-backed store *)

HandlerInitDone ==
    /\ initOnce = "done"
    /\ verifier = {"verifier"}
    /\ exited = FALSE
    /\ hpc = [c \in Clients |-> "idle"]
    /\ req = [c \in Clients |-> NoReq]
    /\ result = [c \in Clients |-> {}]
    /\ verifyErr = [c \in Clients |-> FALSE]
    /\ gvConfig = [c \in Clients |-> {}]
    /\ resp = [c \in Clients |-> NoResp]
    /\ nVerify = [c \in Clients |-> 0]
    /\ nGet = [c \in Clients |-> 0]
    /\ nSet = [c \in Clients |-> 0]
    /\ ranInit = [c \in Clients |-> FALSE]

InitKVHandler ==
    /\ StoreInit /\ ResolverInit /\ HandlerInitDone /\ RedactInit /\ KVInit
    /\ SaveInit /\ CancelInit /\ PageInit

KVHandlerStep(c) ==
    \/ /\ \/ \E r \in ValidReqs : KVBeginRequest(c, r)
          \/ CallVerify(c)
          \/ VerifyError(c)
          \/ VerifyNil(c)
          \/ VerifyResult(c)
          \/ Finish(c)
       /\ UNCHANGED kvVars
    \/ KVCallStoreGet(c)
    \/ KVStoreGetReturn(c)

\* Writers of the keyspace other than the handler.
KVWriterStep ==
    /\ \/ \E id \in KVKeys : KVSetConfig(id, PremiumConfig)
       \/ \E key \in KVKeys, value \in RawValues : KVSetWithExpiration(key, value)
       \/ \E key \in KVKeys : KVExpire(key)
       \/ kv.op # "get" /\ KVReturn
    /\ UNCHANGED handlerVars

VerifyKVNext ==
    /\ \/ \E c \in Clients : KVHandlerStep(c)
       \/ KVWriterStep
    /\ UNCHANGED <<storeVars, resolverVars, redactVars, saveVars, cancelVars, pageVars>>

SpecVerifyKV == InitKVHandler /\ [][VerifyKVNext]_vars

----------------------------------------------------------------------------
(* Specification of GoSaveOptions serving concurrent requests *)

SaveStep(c) ==
    \/ \E r \in SaveReqs : SaveBegin(c, r)
    \/ SaveHandleOptions(c)
    \/ SaveHandleNotPost(c)
    \/ SaveHandleBadJSON(c)
    \/ SaveHandleNoUser(c)
    \/ SaveHandleNoOptions(c)
    \/ SaveStoreBegin(c)
    \/ SaveStoreEnd(c)
    \/ SaveRaceFatal(c)
    \/ SaveReply(c)
    \/ SaveFinish(c)

SaveNext ==
    /\ ~crashed
    /\ \E c \in Clients : SaveStep(c)
    /\ UNCHANGED <<storeVars, resolverVars, handlerVars, redactVars, kvVars, cancelVars, pageVars>>

SpecSave == Init /\ [][SaveNext]_vars

----------------------------------------------------------------------------
(* Claims about the in-memory store *)

ReadDone(c) == pc[c] = "get_runlock"

WriteDone(c) == pc[c] = "set_unlock"

\* C1: a GetConfig(k) that follows a completed SetConfig(k, r), with no
\* later SetConfig on k, returns r in every field; a field absent in r is
\* absent in the result, not replaced by the default 18 / true.
C1_RoundTrip ==
    \A c \in Clients :
        (ReadDone(c) /\ opKey[c] \in DOMAIN lastSet) =>
            /\ ret[c] = lastSet[opKey[c]]
            /\ ret[c].minimumAge = lastSet[opKey[c]].minimumAge
            /\ ret[c].ofac = lastSet[opKey[c]].ofac
            /\ ret[c].excludedCountries = lastSet[opKey[c]].excludedCountries

\* Two concurrent readers: one reads back the premium record written under
\* "premium-user-config", the other a record whose optional fields are absent.
C1_Witness ==
    \E c, d \in Clients :
        /\ ReadDone(c) /\ opKey[c] = "premium-user-config"
        /\ opKey[c] \in DOMAIN lastSet /\ lastSet[opKey[c]] = PremiumConfig
        /\ ret[c] = PremiumConfig
        /\ ReadDone(d) /\ opKey[d] \in DOMAIN lastSet
        /\ lastSet[opKey[d]] = ZeroConfig /\ ret[d].minimumAge = {}

\* C2: the read step of GetConfig on a key no SetConfig has written returns
\* the default record (18, true, no exclusions) and leaves the map as it was;
\* and the first SetConfig to write a key reports it as newly created,
\* however many GetConfig calls came before.
C2_DefaultNotPersisted ==
    [][\A c \in Clients :
          /\ (pc[c] = "get_read" /\ pc'[c] = "get_runlock") =>
                /\ configs' = configs
                /\ DOMAIN configs' = DOMAIN configs
                /\ (opKey[c] \notin DOMAIN lastSet => ret'[c] = DefaultConfig)
          /\ (pc[c] = "set_write2" /\ pc'[c] = "set_unlock"
                /\ opKey[c] \notin DOMAIN lastSet) =>
                created'[c] = {TRUE}]_vars

C2_Witness ==
    \E c \in Clients :
        /\ ReadDone(c) /\ opKey[c] \notin DOMAIN configs
        /\ ret[c] = DefaultConfig
        /\ configs # EmptyMap

\* C3: SetConfig returns wasCreated = TRUE exactly when the key was absent
\* from the map immediately before its write, FALSE on an overwrite, and
\* always returns a value (there is no error return).
C3_WasCreated ==
    \A c \in Clients :
        WriteDone(c) => created[c] = {preAbsent[c]}

C3_Witness ==
    \E c \in Clients :
        /\ WriteDone(c) /\ created[c] = {FALSE}
        /\ opKey[c] \in DOMAIN lastSet /\ lastSet[opKey[c]] = opCfg[c]

InReadSection(c) == pc[c] \in {"get_read", "get_runlock"}

InWriteSection(c) ==
    pc[c] \in {"set_check", "set_write", "set_write2", "set_unlock"}

\* C5: a writer touches the map only while it holds the exclusive lock and
\* a reader only while it holds the shared lock; no SetConfig is inside its
\* critical section together with another GetConfig or SetConfig; and a
\* GetConfig(k) returns the default or a record a SetConfig(k, .) wrote in
\* full, never a half-written one.
C5_LockSafety ==
    /\ \A c \in Clients :
          /\ InWriteSection(c) => c \in mutex.writer
          /\ InReadSection(c) => c \in mutex.readers
    /\ \A c, d \in Clients :
          (c # d /\ InWriteSection(c)) =>
              ~(InWriteSection(d) \/ InReadSection(d))
    /\ \A c \in Clients :
          ReadDone(c) =>
              \/ opKey[c] \notin DOMAIN lastSet /\ ret[c] = DefaultConfig
              \/ opKey[c] \in DOMAIN lastSet /\ ret[c] = lastSet[opKey[c]]

\* A reader is inside its critical section while a writer waits for the
\* lock on the same key, and another reader shares the lock.
C5_Witness ==
    \E c, d \in Clients :
        /\ c # d
        /\ ReadDone(c) /\ opKey[c] \in DOMAIN lastSet
        /\ pc[d] = "set_lock" /\ opKey[d] = opKey[c]
        /\ opCfg[d] # lastSet[opKey[c]]

----------------------------------------------------------------------------
(* Claims about the Redis-backed store *)

\* C4: KVConfigStore.SetConfig returns wasCreated = TRUE if and only if the
\* key was absent from the backend before the write; a successful second
\* SetConfig on the same key returns FALSE.
C4_KVWasCreated ==
    (kv.op = "set" /\ ~kv.err) => kv.created = {kv.preAbsent}

----------------------------------------------------------------------------
(* Claims about the action-id resolver *)

Called == action.key # NoKey

\* C6 as stated: the tier is decided by the length in characters.
C6_TierByCharacters ==
    Called =>
        /\ Len(action.data) <= 10 => action.key = "standard-user-config"
        /\ Len(action.data) > 10 => action.key = "premium-user-config"

\* C6, amended: GetActionId returns "standard-user-config" when the UTF-8
\* byte length of the data (Go's len) is at most 10 and
\* "premium-user-config" when it is above 10, whatever the identity; the
\* tier flips exactly between 10 and 11 bytes.
C6_TierByBytes ==
    Called =>
        /\ GoLen(action.data) <= 10 => action.key = "standard-user-config"
        /\ GoLen(action.data) > 10 => action.key = "premium-user-config"
        /\ action.key \in {"standard-user-config", "premium-user-config"}

\* A call at exactly 10 bytes answered standard, by a non-default identity.
C6_Witness ==
    /\ Called
    /\ GoLen(action.data) = 10 /\ Len(action.data) = 10
    /\ action.uid = "user123"
    /\ action.key = "standard-user-config"

----------------------------------------------------------------------------
(* Claims about GoVerify and the disclosure filter *)

\* A successful verification answered from a resolved policy record.
Succeeded(c) ==
    /\ hpc[c] = "done" /\ resp[c].status = "success" /\ resp[c].result
    /\ gvConfig[c] # {}

TheConfig(c) == CHOOSE x \in gvConfig[c] : TRUE

TheResult(c) == CHOOSE x \in result[c] : TRUE

\* C7: in the credentialSubject of a successful verification every
\* disclosable field equals the verifier's value when the resolved record's
\* toggle for it is true and "Not disclosed" otherwise.
C7_SubjectRedacted ==
    \A c \in Clients :
        Succeeded(c) =>
            \E s \in resp[c].credentialSubject :
                \A f \in Fields :
                    s[f] = IF Toggle(TheConfig(c), f)
                           THEN TheResult(c).subject[f]
                           ELSE NotDisclosed

\* C8: redacting an already redacted subject with the same record changes
\* nothing.
C8_RedactIdempotent ==
    redaction # NoRedaction => redaction.twice = redaction.once

\* A record that discloses some fields and hides others, applied to a
\* subject whose hidden fields held real values.
C8_Witness ==
    /\ redaction # NoRedaction
    /\ redaction.subject = RawSubject
    /\ Toggle(redaction.record, "name")
    /\ ~Toggle(redaction.record, "passportNumber")
    /\ redaction.once["name"] = "ALICE"
    /\ redaction.once["passportNumber"] = NotDisclosed
    /\ redaction.once # redaction.subject

\* The summary C9 describes: minimumAge and ofac as the record has them,
\* excludedCountries always there.
ExpectedOptions(cfg) ==
    LET keys == (IF cfg.minimumAge # {} THEN {"minimumAge"} ELSE {})
                \cup (IF cfg.ofac # {} THEN {"ofac"} ELSE {})
                \cup {"excludedCountries"}
    IN  [k \in keys |->
            CASE k = "minimumAge" -> CHOOSE v \in cfg.minimumAge : TRUE
              [] k = "ofac" -> CHOOSE v \in cfg.ofac : TRUE
              [] OTHER -> cfg.excludedCountries]

\* C9: the verificationOptions of a successful verification hold minimumAge
\* and ofac as in the resolved record and always excludedCountries, the
\* empty list when the record excludes nothing, and no other field.
C9_OptionsSummary ==
    \A c \in Clients :
        Succeeded(c) =>
            resp[c].verificationOptions = {ExpectedOptions(TheConfig(c))}

LacksRequiredInput(r) ==
    /\ r.method = "POST" /\ r.body = "json"
    /\ \/ r.attestationId = ""
       \/ ~r.proof
       \/ ~r.publicSignals
       \/ r.userContextData = {}

IsValidationError(r) ==
    /\ r.kind = "verify" /\ r.status = "error" /\ ~r.result
    /\ r.credentialSubject = {} /\ r.verificationOptions = {}
    /\ r.code = 400

\* C10 as stated: a request lacking a required input ends with a validation
\* error, and while it was handled the verifier, GetConfig and SetConfig
\* were called zero times.
C10_NoCallsAtAll ==
    \A c \in Clients :
        (hpc[c] = "done" /\ LacksRequiredInput(req[c])) =>
            /\ IsValidationError(resp[c])
            /\ nVerify[c] = 0 /\ nGet[c] = 0 /\ nSet[c] = 0

\* C10, amended: such a request ends with a validation error; the verifier
\* and GetConfig are called zero times for it, and SetConfig is called only
\* by the one-time initialization (its two seed writes), which runs inside
\* the first request served.
C10_NoCallsAfterInit ==
    \A c \in Clients :
        /\ (hpc[c] = "done" /\ LacksRequiredInput(req[c])) =>
              /\ IsValidationError(resp[c])
              /\ nVerify[c] = 0 /\ nGet[c] = 0
              /\ nSet[c] = IF ranInit[c] THEN 2 ELSE 0
        /\ (hpc[c] \notin {"idle", "init"} /\ LacksRequiredInput(req[c])) =>
              /\ nVerify[c] = 0 /\ nGet[c] = 0
              /\ ~ranInit[c] => nSet[c] = 0

\* A request without userContextData, served after initialization, has been
\* answered with the validation error.
C10_Witness ==
    \E c \in Clients :
        /\ hpc[c] = "done" /\ LacksRequiredInput(req[c])
        /\ req[c].userContextData = {} /\ req[c].attestationId # ""
        /\ ~ranInit[c] /\ initOnce = "done"
        /\ IsValidationError(resp[c])

----------------------------------------------------------------------------
(* Claims about the outcomes of the verifier call *)

\* The verifier returned a result, without error, that reports the proof
\* as not valid.
ReportedInvalid(c) ==
    /\ nVerify[c] > 0
    /\ result[c] # {}
    /\ ~TheResult(c).valid

\* C11: a request whose verifier call returned without error a result that
\* reports the proof not valid is answered with status "error", result
\* false, no credentialSubject and no verificationOptions, and makes no
\* GetConfig call.
C11_InvalidProofIsError ==
    \A c \in Clients :
        (hpc[c] = "done" /\ ReportedInvalid(c)) =>
            /\ resp[c].status = "error"
            /\ ~resp[c].result
            /\ resp[c].credentialSubject = {}
            /\ resp[c].verificationOptions = {}
            /\ nGet[c] = 0

\* The store lookup of the request came back with an error.
StoreFailed(c) ==
    /\ hpc[c] = "done"
    /\ nGet[c] > 0
    /\ gvConfig[c] = {}

----------------------------------------------------------------------------
(* Claims about KVConfigStore.GetConfig *)

\* C13: a GetConfig answered redis.Nil by the backend returns the default
\* record and no error, the same record the in-memory store returns for a
\* key its map does not hold; a GetConfig answered by any other backend
\* error returns an error and a record that is not the default.
C13_KVNotFoundIsDefault ==
    kv.op = "get" =>
        /\ kv.reply = "nil" =>
              /\ ~kv.err
              /\ kv.config = {DefaultConfig}
              /\ kv.config = {GetConfigResult(EmptyMap, kv.key)}
        /\ kv.reply = "error" =>
              /\ kv.err
              /\ kv.config # {DefaultConfig}

\* A key that is not in a non-empty keyspace was read and the default came
\* back without error.
C13_Witness ==
    /\ kv.op = "get"
    /\ kv.reply = "nil"
    /\ kv.key \notin DOMAIN redis
    /\ DOMAIN redis # {}
    /\ kv.config = {DefaultConfig}
    /\ ~kv.err

\* C14: a GetConfig on a key whose stored value does not decode into a
\* policy record (not JSON, or a member of the wrong type) returns an error;
\* it returns neither the default record nor the members that did decode.
C14_MalformedIsError ==
    (kv.op = "get" /\ kv.reply = "value" /\ ~kv.preAbsent
       /\ kv.key \in DOMAIN redis
       /\ (~redis[kv.key].wellFormed \/ ~redis[kv.key].typed)) =>
        /\ kv.err
        /\ kv.config = {ZeroConfig}

\* A value with one member of the wrong type and one that decodes was read.
C14_Witness ==
    /\ kv.op = "get"
    /\ kv.reply = "value"
    /\ kv.key \in DOMAIN redis
    /\ redis[kv.key] = Mistyped
    /\ JSONUnmarshal(redis[kv.key]) # ZeroConfig
    /\ kv.err

----------------------------------------------------------------------------
(* Claims about the limits of a stored record *)

NoDuplicates(seq) ==
    \A i, j \in 1..Len(seq) : seq[i] = seq[j] => i = j

WithinLimits(cfg) ==
    /\ NoDuplicates(cfg.excludedCountries)
    /\ Len(cfg.excludedCountries) <= 40
    /\ \A a \in cfg.minimumAge : a >= 0 /\ a <= 120

\* C15: whenever no write is in progress, every record the in-memory store
\* holds has an excludedCountries list without a repeated code and of at
\* most 40 entries, and a minimumAge that is absent or in 0..120.
C15_RecordsWithinLimits ==
    mutex.writer = {} =>
        \A k \in DOMAIN configs : WithinLimits(configs[k])

----------------------------------------------------------------------------
(* Claims about the key of the store lookup *)

\* The key the action-id resolver gives for the request's identity and
\* context data.
ResolvedKey(r) ==
    GetActionId(UserIDOf(r), CHOOSE d \in r.userContextData : TRUE)

\* C16: the store lookup of a verification request is made under the key
\* GetActionId returns for the request's identity and context data, and the
\* record of a successful response is the one the store holds under that
\* key: the "premium-user-config" record for context data longer than the
\* threshold, the "standard-user-config" record otherwise.
C16_LookupUsesResolvedKey ==
    \A c \in Clients :
        /\ hpc[c] = "getconfig_return" => opKey[c] = ResolvedKey(req[c])
        /\ Succeeded(c) =>
              gvConfig[c] = {GetConfigResult(configs, ResolvedKey(req[c]))}

----------------------------------------------------------------------------
(* Claims about the order of the steps of a request *)

Terminal(c) == hpc[c] = "done"

\* Order and finality: GetConfig is called for a request only after its
\* one verifier call has returned a result without error, and a request
\* that has been answered makes no further verifier call, store call or
\* response before the handler returns.
C17_OrderAndFinality ==
    /\ [](\A c \in Clients :
            nGet[c] > 0 => (nVerify[c] = 1 /\ result[c] # {}
                            /\ hpc[c] \in {"getconfig_return", "done"}))
    /\ [][\A c \in Clients :
            Terminal(c) =>
                \/ /\ nVerify'[c] = nVerify[c] /\ nGet'[c] = nGet[c]
                   /\ resp'[c] = resp[c] /\ hpc'[c] = hpc[c]
                \/ hpc'[c] = "idle"]_vars

\* C17: every request that has arrived is eventually answered, with a
\* success (Completed) or an error (Errored).
C17_EventuallyTerminal ==
    \A c \in Clients : (hpc[c] # "idle") ~> Terminal(c)

\* C18: a request whose verifier call returned an error is answered with
\* status "error", result false, no credentialSubject and no
\* verificationOptions; the verifier was called once for it and GetConfig
\* not at all.
C18_VerifierErrorIsFailure ==
    \A c \in Clients :
        verifyErr[c] =>
            /\ Terminal(c)
            /\ resp[c].kind = "verify"
            /\ resp[c].status = "error"
            /\ ~resp[c].result
            /\ resp[c].credentialSubject = {}
            /\ resp[c].verificationOptions = {}
            /\ nVerify[c] = 1
            /\ nGet[c] = 0
            /\ gvConfig[c] = {}

\* A valid request was answered 500 after its verifier call failed.
C18_Witness ==
    \E c \in Clients :
        /\ Terminal(c)
        /\ verifyErr[c]
        /\ req[c] \in ValidReqs
        /\ resp[c].code = 500
        /\ nVerify[c] = 1

----------------------------------------------------------------------------
(* Claims about shared state *)

\* C19: no two goroutines are inside an access to the same shared map at
\* the same time with one of them writing: not in the config store's map,
\* whose accesses are made under the store's lock, and not in optionsStore.
C19_NoUnlockedConcurrentAccess ==
    /\ \A c, d \in Clients :
          (c # d /\ InWriteSection(c)) =>
              ~(InWriteSection(d) \/ InReadSection(d))
    /\ \A c, d \in Clients :
          (c \in mapWriters /\ d \in mapWriters) => c = d

HoldsLock(c) == c \in mutex.readers \/ c \in mutex.writer

\* C20: a goroutine holds the store's lock only between the Lock / RLock
\* and the return of the one SetConfig or GetConfig it is in, never while
\* it is in a verifier call; and no goroutine stays inside a store call for
\* ever (each is again and again outside one), even if the verifier calls
\* of other requests never return.
C20_LockNotHeldAcrossVerify ==
    /\ [](\A c \in Clients :
            HoldsLock(c) =>
                /\ InReadSection(c) \/ InWriteSection(c)
                /\ hpc[c] # "verifying")
    /\ \A c \in Clients : []<>(pc[c] = "idle")

\* One request is inside its verifier call while another holds the read
\* lock inside GetConfig.
C20_Witness ==
    \E c, d \in Clients :
        /\ c # d
        /\ hpc[c] = "verifying"
        /\ ~HoldsLock(c)
        /\ hpc[d] = "getconfig_return"
        /\ d \in mutex.readers

----------------------------------------------------------------------------
(* Claims about cancellation *)

\* C21: while a request whose context is done is inside its verifier call
\* or its GetConfig call, the context that call runs under is done too.
C21_CancellationPropagated ==
    \A c \in Clients :
        (cancelled[c] /\ hpc[c] \in {"verifying", "getconfig_return"}) =>
            CallContextDone(c)

----------------------------------------------------------------------------
(* Claims about the two stores side by side *)

\* C22: after the same SetConfig calls on both stores, a GetConfig(k) on
\* the Redis-backed store returns, without error, the record the in-memory
\* store returns: the last record written to k, with every field that was
\* absent still absent, or the default when k was never written.
C22_StoresAgreeOnReads ==
    \A c \in Clients :
        (kv.op = "get" /\ opKey[c] = kv.key) =>
            /\ ~kv.err
            /\ kv.config = {ret[c]}
            /\ ret[c] = IF kv.key \in DOMAIN lastSet
                        THEN lastSet[kv.key] ELSE DefaultConfig

\* A record with no optional field was written and read back from both
\* stores, while the other key holds a record whose fields are present
\* with the values 0 and false.
C22_Witness ==
    \E c \in Clients :
        /\ kv.op = "get" /\ opKey[c] = kv.key
        /\ kv.key \in DOMAIN lastSet
        /\ lastSet[kv.key] = ZeroConfig
        /\ kv.config = {ZeroConfig}
        /\ \E j \in DOMAIN lastSet : lastSet[j] = ExplicitZeroConfig

----------------------------------------------------------------------------
(* Claims about the config store after initialization *)

\* C23: once initializeVerifier has completed, the config store holds
\* exactly "standard-user-config" (18, ofac) and "premium-user-config" (21,
\* RUS and IRN excluded, ofac), nobody is writing it, and the
\* verificationOptions of a successful GoVerify response are those of the
\* record the store returns for the user, whatever optionsStore holds.
C23_StoreFixedAfterInit ==
    /\ initOnce = "done" =>
          /\ DOMAIN configs = {"standard-user-config", "premium-user-config"}
          /\ configs["standard-user-config"] =
                [minimumAge |-> {18}, ofac |-> {TRUE}, excludedCountries |-> <<>>]
          /\ configs["premium-user-config"] =
                [minimumAge |-> {21}, ofac |-> {TRUE},
                 excludedCountries |-> <<"RUS", "IRN">>]
          /\ mutex.writer = {}
          /\ \A c \in Clients : ~InWriteSection(c)
    /\ \A c \in Clients :
          Succeeded(c) =>
              resp[c].verificationOptions =
                  {[k \in {"minimumAge", "ofac"} |->
                      IF k = "minimumAge" THEN 18 ELSE TRUE]}

\* A user saved options through GoSaveOptions, and a later GoVerify request
\* of the same user was answered from the unchanged store.
C23_Witness ==
    \E c \in Clients :
        /\ Succeeded(c)
        /\ UserIDOf(req[c]) \in DOMAIN optionsStore
        /\ optionsStore[UserIDOf(req[c])] = "optionsB"
        /\ initOnce = "done"
        /\ ~ranInit[c]

\* A goroutine is inside the body of initOnce.Do.
InInitBody(c) == hpc[c] \in {"init_standard", "init_premium", "init_verifier"}

\* A GoVerify request is past initializeVerifier and not yet answered.
PastInit(c) ==
    hpc[c] \in {"handle", "verifying", "getconfig", "getconfig_return"}

\* C24: the body of initOnce.Do is entered only while the Once is fresh and
\* the Once is never fresh again, so it is entered once; one goroutine at
\* most is inside it; and a request is past initializeVerifier only when the
\* body has completed, with the verifier set and both seed records stored.
C24_InitExactlyOnce ==
    /\ [](\A c \in Clients :
            /\ InInitBody(c) => /\ initOnce = "running"
                                /\ \A d \in Clients \ {c} : ~InInitBody(d)
            /\ PastInit(c) => /\ initOnce = "done"
                              /\ verifier # {}
                              /\ DOMAIN configs = {"standard-user-config",
                                                   "premium-user-config"})
    /\ [][/\ \A c \in Clients :
               (~InInitBody(c) /\ InInitBody(c)') =>
                   (initOnce = "fresh" /\ initOnce' = "running")
          /\ initOnce # "fresh" => initOnce' # "fresh"
          /\ initOnce = "done" => initOnce' = "done"]_vars

\* Two first requests raced: one ran the body, the other arrived before the
\* body completed and is let go without running it.
C24_Witness ==
    \E c, d \in Clients :
        /\ c # d
        /\ ranInit[c] /\ PastInit(c)
        /\ hpc[d] = "init" /\ ~ranInit[d]
        /\ initOnce = "done"

----------------------------------------------------------------------------
(* Claims about what the store methods leave alone *)

\* The entry a map holds under a key: empty when the key is absent.
Entry(m, k) == IF k \in DOMAIN m THEN {m[k]} ELSE {}

InGetConfig(c) == pc[c] \in {"get_rlock", "get_read", "get_runlock"}

\* C25: an entry of the store changes only in a step of a SetConfig on that
\* key, taken by the holder of the write lock, and no other entry changes
\* in that step; when the call's write completes the entry is the record
\* passed; no step of a GetConfig and no GetActionId call or return changes
\* any entry.
C25_OnlyTheKeyChanges ==
    [][/\ \A k \in StoreKeys :
             Entry(configs, k) # Entry(configs', k) =>
                 /\ \E c \in Clients :
                        /\ pc[c] \in {"set_write", "set_write2"}
                        /\ pc'[c] # pc[c]
                        /\ opKey[c] = k
                        /\ c \in mutex.writer
                 /\ \A j \in StoreKeys \ {k} : Entry(configs, j) = Entry(configs', j)
       /\ DOMAIN configs' \subseteq StoreKeys
       /\ \A c \in Clients :
             (pc[c] = "set_write2" /\ pc'[c] = "set_unlock") =>
                 Entry(configs', opKey[c]) = {opCfg[c]}
       /\ \A c \in Clients :
             (InGetConfig(c) /\ pc'[c] # pc[c]) => configs' = configs
       /\ action' # action => configs' = configs]_vars

\* A SetConfig on one key has completed its write while the other key holds
\* a different record, and a GetActionId call is outstanding.
C25_Witness ==
    \E c \in Clients :
        /\ WriteDone(c)
        /\ opKey[c] = "premium-user-config"
        /\ configs[opKey[c]] = PremiumConfig
        /\ "standard-user-config" \in DOMAIN configs
        /\ configs["standard-user-config"] = DefaultConfig
        /\ action # NoAction
        /\ \E d \in Clients : InGetConfig(d)

----------------------------------------------------------------------------
(* Claims about GoSaveOptions *)

\* The response the handler owes a request it rejects.
RejectionOf(r) ==
    CASE r.method = "OPTIONS" -> MkSaveResp(200, "")
      [] r.method # "POST" -> MkSaveResp(405, "Method not allowed")
      [] r.body # "json" -> MkSaveResp(400, "Invalid JSON")
      [] r.userId = "" -> MkSaveResp(400, "User ID is required")
      [] r.options = {} -> MkSaveResp(400, "Options are required")
      [] OTHER -> NoSaveResp

Rejected(r) == RejectionOf(r) # NoSaveResp

\* The rejected half of C26: a request answered without reaching the map
\* assignment is a rejected one, gets the status of its first failed check
\* (200, 405, 400, 400, 400), and its steps leave optionsStore unchanged;
\* an accepted request is never answered that way.
C26_RejectedLeaveStore ==
    [][\A c \in Clients :
          /\ (spc[c] = "handle" /\ spc'[c] = "done") =>
                 /\ Rejected(sreq[c])
                 /\ sresp'[c] = RejectionOf(sreq[c])
                 /\ optionsStore' = optionsStore
          /\ (spc[c] = "handle" /\ spc'[c] = "storing") => ~Rejected(sreq[c])]_vars

\* C26: a rejected request leaves optionsStore unchanged and is answered
\* 200 / 405 / 400 / 400 / 400; the map assignment of an accepted request
\* leaves optionsStore[userId] holding exactly the submitted options,
\* replacing what was there, with every other user's entry unchanged; and
\* no other step changes optionsStore.
C26_SaveSemantics ==
    [][/\ \A c \in Clients :
             /\ (spc[c] = "handle" /\ spc'[c] = "done") =>
                    /\ Rejected(sreq[c])
                    /\ sresp'[c] = RejectionOf(sreq[c])
                    /\ optionsStore' = optionsStore
             /\ (spc[c] = "storing" /\ spc'[c] = "stored") =>
                    /\ Entry(optionsStore', sreq[c].userId) = sreq[c].options
                    /\ \A u \in (DOMAIN optionsStore \cup DOMAIN optionsStore')
                                  \ {sreq[c].userId} :
                           Entry(optionsStore', u) = Entry(optionsStore, u)
       /\ optionsStore' # optionsStore =>
             \E c \in Clients : spc[c] = "storing" /\ spc'[c] = "stored"]_vars

----------------------------------------------------------------------------
(* Claims about the playground page *)

\* C27: selectedCountries never holds a country twice and never more than
\* 40 countries; toggling a selected country removes it, keeps the order of
\* the others and clears the error; toggling an unselected country with 40
\* selected leaves the list unchanged and sets the error "Maximum 40
\* countries can be excluded"; toggling any other unselected country
\* appends it at the end.
C27_CountryToggle ==
    /\ [](/\ \A i, j \in 1..Len(selectedCountries) :
               selectedCountries[i] = selectedCountries[j] => i = j
          /\ Len(selectedCountries) <= 40)
    /\ [][\A country \in toggled' :
            LET prev == selectedCountries
                selected == \E i \in 1..Len(prev) : prev[i] = country
            IN  IF selected
                THEN /\ Len(selectedCountries') = Len(prev) - 1
                     /\ \A i \in 1..Len(selectedCountries') :
                           selectedCountries'[i] =
                               IF \E j \in 1..i : prev[j] = country
                               THEN prev[i + 1] ELSE prev[i]
                     /\ countrySelectionError' = {}
                ELSE IF Len(prev) >= 40
                THEN /\ selectedCountries' = prev
                     /\ countrySelectionError' =
                           {"Maximum 40 countries can be excluded"}
                ELSE /\ selectedCountries' = prev \o <<country>>
                     /\ countrySelectionError' = countrySelectionError]_vars

\* Forty countries are selected and the toggle of a forty-first has just
\* been refused.
C27_Witness ==
    /\ Len(selectedCountries) = 40
    /\ countrySelectionError = {"Maximum 40 countries can be excluded"}
    /\ selectedCountries[1] # 1
    /\ \E country \in toggled :
          \A i \in 1..40 : selectedCountries[i] # country

----------------------------------------------------------------------------
(* Claims about the resolver of the Redis-backed store *)

\* C28: KVConfigStore.GetActionId returns the user identifier it was given,
\* whatever the context data and however long, and returns no error; it
\* does not answer with a tier key, and it touches no key of the keyspace.
C28_KVActionIdIsUserId ==
    /\ kv.op = "actionid" =>
          /\ action.key = action.uid
          /\ kv.key = action.uid
          /\ ~kv.err
          /\ action.key \notin {"standard-user-config", "premium-user-config"}
    /\ redis = EmptyKeyspace

\* The call was made with context data longer than the tier threshold of
\* the in-memory store, for which that store answers "premium-user-config".
C28_Witness ==
    /\ kv.op = "actionid"
    /\ action.uid = "user123"
    /\ GoLen(action.data) > TierThreshold
    /\ GetActionId(action.uid, action.data) = "premium-user-config"

====
